---- MODULE Spec2Model ----
(***************************************************************************)
(* NextDex: the data-acquisition and search layer of the Pokedex page.     *)
(*                                                                         *)
(*   Home        (src/app/page.tsx)           page state, loadPokemon      *)
(*   Pagination  (src/unnamed/part_003)       Previous / Next / numbers    *)
(*   helpers     (src/app/utils/helpers.ts)   fetchPokemon, fetchPokemon-  *)
(*                                            List, fetchAllPokemonNames   *)
(*                                                                         *)
(* Strings are sequences of one-character strings, so that toLowerCase,    *)
(* trim, startsWith and split are computed character by character.         *)
(***************************************************************************)
EXTENDS Integers, Sequences, FiniteSets, Bags, TLC

VARIABLES
    \* ---- Home component state (page.tsx 29-47)
    pokemonList,       \* records currently displayed
    allPokemonNames,   \* the name index, <<>> until fetched
    loading,
    searchTerm,
    currentPage,
    totalPages,
    error,
    \* ---- asynchronous work of Home
    namesFetch,        \* loadAllPokemonNames: "idle", "pending", "ok", "failed"
    loads,             \* loadPokemon calls in flight (a bag)
    started,           \* history: the mode of the loadPokemon call started
                       \* last, the event that started it, and currentPage
                       \* before that event
    \* ---- one run of the search computation of loadPokemon (lines 82-124)
    mIndex, mTerm, mPage, mOut,
    \* ---- one call of fetchPokemon (helpers.ts 34-132)
    fpc, fPokemon, fAbilities, fMoves, fResult,
    \* ---- one extraction of identifiers from listing summaries
    xResults, xOut,
    \* ---- one Promise.all over the record fetches of a page (page.tsx
    \*      127-131, 138-145)
    jpc, jIds, jSlots, jList,
    \* ---- one rendering of the Pagination control (part_003 32-83)
    gPage, gTotal, gNumbers

homeVars  == <<pokemonList, allPokemonNames, loading, searchTerm, currentPage,
               totalPages, error, namesFetch, loads, started>>
matchVars == <<mIndex, mTerm, mPage, mOut>>
fetchVars == <<fpc, fPokemon, fAbilities, fMoves, fResult>>
refVars   == <<xResults, xOut>>
joinVars  == <<jpc, jIds, jSlots, jList>>
pagerVars == <<gPage, gTotal, gNumbers>>
vars      == <<homeVars, matchVars, fetchVars, refVars, joinVars, pagerVars>>

-----------------------------------------------------------------------------
(* Bounds of the model *)

CatalogSize  == 13   \* entries of the upstream catalog
MaxInFlight  == 2    \* loadPokemon calls in flight at once
MaxIndexLen  == 3    \* length of the small indexes of the search runs
MaxBigIndex  == 26   \* length of the longest index of the search runs
MaxPage      == 2    \* largest page number of the search runs
MaxAbilities == 5    \* abilities listed by a primary record
MaxMoves     == 21   \* moves listed by a primary record
MaxFaults    == 1    \* sub-item fetches of one call that do not enrich
MaxAhead     == 1    \* how far a move fetch settles ahead of an earlier one

(* Program constants *)

ITEMS_PER_PAGE == 12
ABILITY_CAP    == 4
MOVE_CAP       == 20

-----------------------------------------------------------------------------
(* Strings *)

Null == "null"

\* a sequence given as a function, enumerated once (the value is the same)
AsSeq(f) == f \o <<>>

Chars(s) == AsSeq([i \in 1..Len(s) |-> SubSeq(s, i, i)])

UpperCase == Chars("ABCDEFGHIJKLMNOPQRSTUVWXYZ")
LowerCase == Chars("abcdefghijklmnopqrstuvwxyz")
UpperCaseSet == {UpperCase[i] : i \in 1..Len(UpperCase)}
WhiteSpace == {" ", "\t", "\n"}

\* String.prototype.toLowerCase, one character
LowerChar(c) ==
    IF c \in UpperCaseSet
    THEN LowerCase[CHOOSE i \in 1..Len(UpperCase) : UpperCase[i] = c]
    ELSE c

\* String.prototype.toLowerCase
ToLowerCase(s) == AsSeq([i \in 1..Len(s) |-> LowerChar(s[i])])

\* String.prototype.trim: drops leading and trailing white space
RECURSIVE TrimStart(_)
TrimStart(s) ==
    IF s # <<>> /\ Head(s) \in WhiteSpace THEN TrimStart(Tail(s)) ELSE s

RECURSIVE TrimEnd(_)
TrimEnd(s) ==
    IF s # <<>> /\ s[Len(s)] \in WhiteSpace
    THEN TrimEnd(SubSeq(s, 1, Len(s) - 1)) ELSE s

Trim(s) == TrimEnd(TrimStart(s))

\* String.prototype.startsWith
StartsWith(s, p) == Len(p) <= Len(s) /\ SubSeq(s, 1, Len(p)) = p

\* String.prototype.split(sep) for a one-character separator: the sequence
\* of the pieces between separators ("" gives <<"">>, "a-" gives <<"a","">>)
\* (i: the position read next, from: where the current piece starts)
RECURSIVE SplitFrom(_, _, _, _)
SplitFrom(s, sep, i, from) ==
    IF i > Len(s) THEN <<SubSeq(s, from, Len(s))>>
    ELSE IF s[i] = sep
         THEN <<SubSeq(s, from, i - 1)>> \o SplitFrom(s, sep, i + 1, i + 1)
         ELSE SplitFrom(s, sep, i + 1, from)

Split(s, sep) == SplitFrom(s, sep, 1, 1)

\* Array.prototype.slice(start, end), negative arguments counted from the end
Slice(seq, start, end) ==
    LET n == Len(seq)
        a == IF start < 0 THEN (IF n + start < 0 THEN 0 ELSE n + start)
             ELSE (IF start > n THEN n ELSE start)
        b == IF end < 0 THEN (IF n + end < 0 THEN 0 ELSE n + end)
             ELSE (IF end > n THEN n ELSE end)
    IN  IF a >= b THEN <<>> ELSE SubSeq(seq, a + 1, b)

\* Math.ceil(n / d) for d > 0
CeilDivFloor(n, d) == n \div d
CeilDiv(n, d) == -((-n) \div d)

-----------------------------------------------------------------------------
(* The search computation of loadPokemon (page.tsx 82-124) *)

\* normalizedSearchTerm (page.tsx 82)
NormalizeSearchTermNoLower(term) == Trim(term)
NormalizeSearchTermNoTrim(term) == ToLowerCase(term)
NormalizeSearchTerm(term) == Trim(ToLowerCase(term))

\* the filter callback (page.tsx 86-102, repeated at 106-122): which of its
\* three return statements accepts the entry, "none" when it returns false
MatchClauseNoWord(name, q) ==
    LET pokemonName == ToLowerCase(name)
    IN  IF pokemonName = q THEN "exact"
        ELSE IF StartsWith(pokemonName, q) THEN "prefix"
        ELSE "none"
RECURSIVE Includes(_, _)
Includes(s, q) ==
    StartsWith(s, q) \/ (s # <<>> /\ Includes(Tail(s), q))
MatchClauseIncludes(name, q) ==
    LET pokemonName == ToLowerCase(name)
    IN  IF pokemonName = q THEN "exact"
        ELSE IF StartsWith(pokemonName, q) THEN "prefix"
        ELSE IF Includes(pokemonName, q) THEN "word"
        ELSE "none"
MatchClauseNonEmpty(name, q) ==
    LET pokemonName == ToLowerCase(name)
        nameWords   == Split(pokemonName, "-")
    IN  IF q = <<>> THEN "none"
        ELSE IF pokemonName = q THEN "exact"
        ELSE IF StartsWith(pokemonName, q) THEN "prefix"
        ELSE IF \E w \in 1..Len(nameWords) : nameWords[w] = q THEN "word"
        ELSE "none"
MatchClause(name, q) ==
    LET pokemonName == ToLowerCase(name)
        nameWords   == Split(pokemonName, "-")
    IN  IF pokemonName = q THEN "exact"
        ELSE IF StartsWith(pokemonName, q) THEN "prefix"
        ELSE IF \E w \in 1..Len(nameWords) : nameWords[w] = q THEN "word"
        ELSE "none"

NameMatches(name, q) == MatchClause(name, q) # "none"

FilterNamesExactFirst(names, q) ==
    SelectSeq(names, LAMBDA p : MatchClause(p.name, q) = "exact")
    \o SelectSeq(names, LAMBDA p : MatchClause(p.name, q) \in {"prefix", "word"})

\* allPokemonNames.filter(...)
FilterNames(names, q) == SelectSeq(names, LAMBDA p : NameMatches(p.name, q))

\* filteredNames (page.tsx 85-103): the page slice of the matches
FilteredNames(names, term, page) ==
    Slice(FilterNames(names, NormalizeSearchTerm(term)),
          (page - 1) * ITEMS_PER_PAGE, page * ITEMS_PER_PAGE)

\* totalFilteredItems (page.tsx 106-122)
TotalFilteredItems(names, term) ==
    Len(FilterNames(names, NormalizeSearchTerm(term)))

\* the value passed to setTotalPages in Searching mode (page.tsx 124)
SearchTotalPagesOfIndex(names, term) == CeilDiv(Len(names), ITEMS_PER_PAGE)
SearchTotalPages(names, term) ==
    CeilDiv(TotalFilteredItems(names, term), ITEMS_PER_PAGE)

\* the branch condition of loadPokemon (page.tsx 80)
UseSearchAlways(term, names) == term # <<>>
UseSearchIndexOnly(term, names) == Len(names) > 0
UseSearch(term, names) == term # <<>> /\ Len(names) > 0

IdsOf(entries) == AsSeq([i \in 1..Len(entries) |-> entries[i].id])

-----------------------------------------------------------------------------
(* Identifier extraction from a reference (helpers.ts 174, page.tsx 140) *)

\* NaN, written as an integer that no numeral of the model parses to; the
\* code does no arithmetic on identifiers
NaN == -2147483647
DigitChars == Chars("0123456789")
IsDigit(c) == c \in {"0", "1", "2", "3", "4", "5", "6", "7", "8", "9"}
DigitValue(c) == (CHOOSE i \in 1..10 : DigitChars[i] = c) - 1


\* the decimal numeral of n >= 0, as the upstream API writes it in a url
RECURSIVE DigitsOf(_)
DigitsOf(n) ==
    IF n < 10 THEN <<DigitChars[n + 1]>>
    ELSE Append(DigitsOf(n \div 10), DigitChars[(n % 10) + 1])

\* parseInt(s): white space skipped, an optional sign, then the longest run
\* of decimal digits; NaN when there is no digit (hexadecimal is left out)
RECURSIVE ParseDigits(_, _)
ParseDigits(s, acc) ==
    IF s # <<>> /\ IsDigit(Head(s))
    THEN ParseDigits(Tail(s), 10 * acc + DigitValue(Head(s)))
    ELSE acc

ParseInt(s) ==
    LET t == TrimStart(s)
        signed == t # <<>> /\ Head(t) \in {"-", "+"}
        d == IF signed THEN Tail(t) ELSE t
    IN  IF d = <<>> \/ ~IsDigit(Head(d)) THEN NaN
        ELSE IF signed /\ Head(t) = "-" THEN 0 - ParseDigits(d, 0)
        ELSE ParseDigits(d, 0)

\* parseInt(url.split('/').slice(-2, -1)[0]); undefined parses to NaN
ExtractId(url) ==
    LET seg == Slice(Split(url, "/"), -2, -1)
    IN  IF seg = <<>> THEN NaN ELSE ParseInt(seg[1])

-----------------------------------------------------------------------------
(* The upstream catalog, as the listing endpoint serves it *)

RECURSIVE Repeat(_, _)
Repeat(c, n) == IF n <= 0 THEN <<>> ELSE <<c>> \o Repeat(c, n - 1)

\* distinct names over a, b, c and '-': of every four entries two match the
\* query "a" (one by prefix, one as a hyphen-separated word)
CatalogName(i) ==
    LET k == (i - 1) \div 4
    IN  CASE i % 4 = 1 -> <<"a">> \o Repeat("b", k)
          [] i % 4 = 2 -> <<"b">> \o Repeat("c", k)
          [] i % 4 = 3 -> Repeat("c", k + 1) \o <<"-", "a">>
          [] OTHER     -> <<"b">> \o Repeat("c", k) \o <<"-", "a", "b">>

\* the reference of an entry: ".../pokemon/<id>/" (host and api prefix are
\* left out)
PokemonUrl(id) == Chars("/pokemon/") \o DigitsOf(id) \o <<"/">>

CatalogOf(n) ==
    AsSeq([i \in 1..n |-> [name |-> CatalogName(i), url |-> PokemonUrl(i)]])
Catalog == CatalogOf(CatalogSize)

\* GET /pokemon?limit&offset -> {count, results}; a negative offset is
\* served as offset 0
ListResponse(limit, offset) ==
    LET from == IF offset < 0 THEN 0 ELSE offset
    IN  [count   |-> Len(Catalog),
         results |-> Slice(Catalog, from, from + limit)]

\* what fetch() gives for the bulk listing request of helpers.ts 165: a 2xx
\* response with the listing, a non-2xx response, or a rejection
BulkResponses ==
    {[kind |-> "ok",        data |-> ListResponse(2000, 0)],
     [kind |-> "non2xx",    data |-> Null],
     [kind |-> "transport", data |-> Null]}

\* data.results.map(...) of fetchAllPokemonNames (helpers.ts 173-179)
NamesOf(results) ==
    AsSeq([i \in 1..Len(results) |->
              [name |-> results[i].name, id |-> ExtractId(results[i].url)]])

\* fetchAllPokemonNames (helpers.ts 161-184): a rejection or a non-2xx
\* status ends in the catch block, which returns []
FetchAllPokemonNames(response) ==
    IF response.kind = "ok" THEN NamesOf(response.data.results) ELSE <<>>

-----------------------------------------------------------------------------
(* Pagination (src/unnamed/part_003) *)

\* the pages a, a+1, ..., b of a for loop (none when b < a)
Range(a, b) ==
    IF b < a THEN <<>> ELSE AsSeq([i \in 1..(b - a + 1) |-> a + i - 1])
Max(a, b) == IF a >= b THEN a ELSE b
Min(a, b) == IF a <= b THEN a ELSE b

\* an entry of the array of getPageNumbers: a page number or the string '...'
PageNumber(n) == [kind |-> "number", page |-> n]
Ellipsis == [kind |-> "string", page |-> 0]
PageNumbersOf(seq) == AsSeq([i \in 1..Len(seq) |-> PageNumber(seq[i])])

GetPageNumbersUnclamped(page, total) ==
    IF total <= 7
    THEN PageNumbersOf(<<1>> \o Range(2, total - 1)
                       \o (IF total > 1 THEN <<total>> ELSE <<>>))
    ELSE   <<PageNumber(1)>>
        \o (IF page > 3 THEN <<Ellipsis>> ELSE <<>>)
        \o PageNumbersOf(Range(page - 1, page + 1))
        \o (IF page < total - 2 THEN <<Ellipsis>> ELSE <<>>)
        \o (IF total > 1 THEN <<PageNumber(total)>> ELSE <<>>)

\* getPageNumbers (part_003 43-83)
GetPageNumbers(page, total) ==
    IF total <= 7
    THEN PageNumbersOf(<<1>> \o Range(2, total - 1)
                       \o (IF total > 1 THEN <<total>> ELSE <<>>))
    ELSE   <<PageNumber(1)>>
        \o (IF page > 3 THEN <<Ellipsis>> ELSE <<>>)
        \o PageNumbersOf(Range(Max(2, page - 1), Min(total - 1, page + 1)))
        \o (IF page < total - 2 THEN <<Ellipsis>> ELSE <<>>)
        \o (IF total > 1 THEN <<PageNumber(total)>> ELSE <<>>)

\* the Previous button (part_003 88-96)
PreviousDisabled(page, total) == page = 1
PreviousTarget(page, total) == Max(page - 1, 1)

\* the Next button (part_003 122-130)
NextDisabled(page, total) == page = total
NextTarget(page, total) == Min(page + 1, total)

-----------------------------------------------------------------------------
(* Home (src/app/page.tsx) *)

ErrorMessage == "Failed to load Pokemon data. Please try again later."

\* what fetchPokemon(id) resolves to, as far as the page is concerned; the
\* enrichment of the record is the subject of the fetchPokemon runs below
RecordOf(id) == [id |-> id]
RecordsOf(ids) == AsSeq([i \in 1..Len(ids) |-> RecordOf(ids[i])])

InFlight == BagCardinality(loads)
\* page.tsx 134-135: the listing request of a Browsing load; a Searching
\* load requests no listing
BrowseOffsetOfNextPage(page) == page * ITEMS_PER_PAGE
BrowseOffset(page) == (page - 1) * ITEMS_PER_PAGE
NoRequest == [limit |-> 0, offset |-> 0]

LaunchCancelling(l) == SetToBag({l})
Launch(l) == loads (+) SetToBag({l})
Settle(l) == loads (-) SetToBag({l})

\* One run of the effect of page.tsx 73-156, up to the first await that
\* needs the network, for the rendered values (term, page, names).
\*   Searching: lines 76-124; when the page slice is empty Promise.all([])
\*     is already resolved and lines 131 and 151 run in the same task.
\*   Browsing: lines 76-77 and the request of line 135.
\* A call in flight keeps the term and page of its closure, and the ids
\* whose records it awaits.
RunEffect(by, term, page, names) ==
    IF UseSearch(term, names)
    THEN LET ids == IdsOf(FilteredNames(names, term, page))
         IN  /\ error' = Null
             /\ totalPages' = SearchTotalPages(names, term)
             /\ started' = [mode |-> "search", by |-> by,
                             before |-> currentPage]
             /\ IF ids = <<>>
                THEN /\ pokemonList' = <<>>
                     /\ loading' = FALSE
                     /\ loads' = loads
                ELSE /\ loading' = TRUE
                     /\ loads' = Launch(
                           [mode |-> "search", stage |-> "records",
                            term |-> term, page |-> page, ids |-> ids,
                            request |-> NoRequest])
                     /\ pokemonList' = pokemonList
    ELSE /\ error' = Null
         /\ loading' = TRUE
         /\ loads' = Launch(
               [mode |-> "browse", stage |-> "list",
                term |-> term, page |-> page, ids |-> <<>>,
                request |-> [limit  |-> ITEMS_PER_PAGE,
                             offset |-> BrowseOffset(page)]])
         /\ started' = [mode |-> "browse", by |-> by, before |-> currentPage]
         /\ UNCHANGED <<totalPages, pokemonList>>

\* the search runs and the fetchPokemon runs below are other executions
HomeFrame == UNCHANGED <<matchVars, fetchVars, refVars, joinVars, pagerVars>>

\* the first render: both effects run (page.tsx 56-67 and 73-156)
Mount ==
    /\ HomeFrame
    /\ namesFetch = "idle"
    /\ namesFetch' = "pending"
    /\ RunEffect("mount", searchTerm, currentPage, allPokemonNames)
    /\ UNCHANGED <<searchTerm, currentPage, allPokemonNames>>

\* handleSearchChange (page.tsx 164-167), then the effect for the new render
HandleSearchChangeRefetch(value) ==
    /\ HomeFrame
    /\ namesFetch # "idle"
    /\ value # searchTerm
    /\ InFlight < MaxInFlight
    /\ searchTerm' = value
    /\ currentPage' = 1
    /\ allPokemonNames' = <<>>
    /\ namesFetch' = "pending"
    /\ RunEffect("query", value, 1, <<>>)
HandleSearchChangeKeepPage(value) ==
    /\ HomeFrame
    /\ namesFetch # "idle"
    /\ value # searchTerm
    /\ InFlight < MaxInFlight
    /\ searchTerm' = value
    /\ currentPage' = currentPage
    /\ RunEffect("query", value, currentPage, allPokemonNames)
    /\ UNCHANGED <<allPokemonNames, namesFetch>>
HandleSearchChange(value) ==
    /\ HomeFrame
    /\ namesFetch # "idle"
    /\ value # searchTerm
    /\ InFlight < MaxInFlight
    /\ searchTerm' = value
    /\ currentPage' = 1
    /\ RunEffect("query", value, 1, allPokemonNames)
    /\ UNCHANGED <<allPokemonNames, namesFetch>>

\* onPageChange={setCurrentPage} (page.tsx 221-225): setting the page it
\* already has re-renders nothing and starts no load
OnPageChange(page) ==
    IF page = currentPage
    THEN UNCHANGED homeVars
    ELSE /\ InFlight < MaxInFlight
         /\ currentPage' = page
         /\ RunEffect("page", searchTerm, page, allPokemonNames)
         /\ UNCHANGED <<searchTerm, allPokemonNames, namesFetch>>

\* Pagination is rendered only while loading is false (page.tsx 195-227)
PaginationShown == namesFetch # "idle" /\ ~loading

ClickPrevious ==
    /\ HomeFrame
    /\ PaginationShown
    /\ ~PreviousDisabled(currentPage, totalPages)
    /\ OnPageChange(PreviousTarget(currentPage, totalPages))

ClickNext ==
    /\ HomeFrame
    /\ PaginationShown
    /\ ~NextDisabled(currentPage, totalPages)
    /\ OnPageChange(NextTarget(currentPage, totalPages))

ClickPageNumber ==
    /\ HomeFrame
    /\ PaginationShown
    /\ LET pageNumbers == GetPageNumbers(currentPage, totalPages)
       IN  \E i \in 1..Len(pageNumbers) :
              /\ pageNumbers[i].kind = "number"
              /\ OnPageChange(pageNumbers[i].page)

\* loadAllPokemonNames (page.tsx 57-64): the array fetchAllPokemonNames
\* returns is stored; it is a new array also when it is empty, so the effect
\* of line 73 runs again
NamesFetchSettlesNoEffect(response) ==
    /\ HomeFrame
    /\ namesFetch = "pending"
    /\ InFlight < MaxInFlight
    /\ namesFetch' = IF response.kind = "ok" THEN "ok" ELSE "failed"
    /\ allPokemonNames' = FetchAllPokemonNames(response)
    /\ UNCHANGED <<pokemonList, loading, searchTerm, currentPage, totalPages,
                   error, loads, started>>
NamesFetchSettles(response) ==
    /\ HomeFrame
    /\ namesFetch = "pending"
    /\ InFlight < MaxInFlight
    /\ namesFetch' = IF response.kind = "ok" THEN "ok" ELSE "failed"
    /\ allPokemonNames' = FetchAllPokemonNames(response)
    /\ RunEffect("names", searchTerm, currentPage,
                 FetchAllPokemonNames(response))
    /\ UNCHANGED <<searchTerm, currentPage>>

LoadFailsSilently(l) ==
    /\ error' = error
    /\ loading' = FALSE
    /\ loads' = Settle(l)
    /\ UNCHANGED <<pokemonList, totalPages, allPokemonNames, searchTerm,
                   currentPage, namesFetch, started>>

LoadFailsClearingList(l) ==
    /\ error' = ErrorMessage
    /\ loading' = FALSE
    /\ loads' = Settle(l)
    /\ pokemonList' = <<>>
    /\ UNCHANGED <<totalPages, allPokemonNames, searchTerm,
                   currentPage, namesFetch, started>>

\* the catch and finally blocks of loadPokemon (page.tsx 147-152)
LoadFails(l) ==
    /\ error' = ErrorMessage
    /\ loading' = FALSE
    /\ loads' = Settle(l)
    /\ UNCHANGED <<pokemonList, totalPages, allPokemonNames, searchTerm,
                   currentPage, namesFetch, started>>

LoadCompletesStillLoading(l, ids) ==
    /\ pokemonList' = RecordsOf(ids)
    /\ loading' = loading
    /\ loads' = Settle(l)

\* setPokemonList and the finally block (page.tsx 131 / 145, 151)
LoadCompletes(l, ids) ==
    /\ pokemonList' = RecordsOf(ids)
    /\ loading' = FALSE
    /\ loads' = Settle(l)

\* fetchPokemonList resolves (page.tsx 135-143): totalPages is set, the ids
\* are extracted, and the record fetches are issued; with no summaries
\* Promise.all([]) is already resolved and lines 145 and 151 follow
ListArrives(l) ==
    /\ HomeFrame
    /\ l.stage = "list"
    /\ LET list == ListResponse(l.request.limit, l.request.offset)
           ids  == AsSeq([k \in 1..Len(list.results) |->
                              ExtractId(list.results[k].url)])
       IN  /\ totalPages' = CeilDiv(list.count, ITEMS_PER_PAGE)
           /\ IF ids = <<>>
              THEN /\ LoadCompletes(l, ids)
                   /\ UNCHANGED <<error, started>>
              ELSE /\ loads' = Settle(l) (+) SetToBag(
                          {[l EXCEPT !.stage = "records", !.ids = ids]})
                   /\ UNCHANGED <<pokemonList, loading, error, started>>
    /\ UNCHANGED <<allPokemonNames, searchTerm, currentPage, namesFetch>>

\* fetchPokemonList throws: non-2xx or transport failure (helpers.ts 146-153)
ListFails(l) ==
    /\ HomeFrame
    /\ l.stage = "list"
    /\ LoadFails(l)

\* every fetchPokemon of the page resolved (page.tsx 127-131, 138-145)
RecordsArrive(l) ==
    /\ HomeFrame
    /\ l.stage = "records"
    /\ LoadCompletes(l, l.ids)
    /\ UNCHANGED <<totalPages, error, allPokemonNames, searchTerm,
                   currentPage, namesFetch, started>>

\* the primary fetch of one record of the page failed: Promise.all rejects
\* (page.tsx 127-129, 138-143; helpers.ts 36-39, 128-131)
RecordsFail(l) ==
    /\ HomeFrame
    /\ l.stage = "records"
    /\ l.ids # <<>>
    /\ LoadFails(l)

\* queries the user types
Queries ==
    {Chars(""), Chars("a"), Chars("z")}

HomeInit ==
    /\ pokemonList = <<>>
    /\ allPokemonNames = <<>>
    /\ loading = TRUE
    /\ searchTerm = <<>>
    /\ currentPage = 1
    /\ totalPages = 0
    /\ error = Null
    /\ namesFetch = "idle"
    /\ loads = EmptyBag
    /\ started = [mode |-> "none", by |-> "none", before |-> 1]

Next ==
    \/ Mount
    \/ \E value \in Queries : HandleSearchChange(value)
    \/ ClickPrevious
    \/ ClickNext
    \/ ClickPageNumber
    \/ \E response \in BulkResponses : NamesFetchSettles(response)
    \/ \E l \in BagToSet(loads) : ListArrives(l)
    \/ \E l \in BagToSet(loads) : ListFails(l)
    \/ \E l \in BagToSet(loads) : RecordsArrive(l)
    \/ \E l \in BagToSet(loads) : RecordsFail(l)

\* the other runs do not move while the page runs
\* no search run has produced its output yet
NoOutput ==
    [runs |-> 0, matches |-> <<>>, via |-> <<>>, totalPages |-> -1, ids |-> <<>>]

MatchIdle == mIndex = <<>> /\ mTerm = <<>> /\ mPage = 1 /\ mOut = NoOutput
\* fetchPokemon has not been called: no primary record, no result
NoPokemon == [id |-> 0, abilities |-> <<>>, moves |-> <<>>]
NoResult  == [kind |-> "none"]

FetchIdle == fpc = "idle" /\ fPokemon = NoPokemon /\ fAbilities = <<>>
             /\ fMoves = <<>> /\ fResult = NoResult

\* no listing summaries have been handed to the extraction
NoExtraction == [kind |-> "none", index |-> <<>>, ids |-> <<>>]
RefIdle == xResults = <<>> /\ xOut = NoExtraction

\* no page of record fetches is being joined
JoinIdle == jpc = "idle" /\ jIds = <<>> /\ jSlots = <<>> /\ jList = <<>>

\* the Pagination control under study has not been rendered
PagerIdle == gPage = 1 /\ gTotal = 0 /\ gNumbers = <<>>

Init ==
    HomeInit /\ MatchIdle /\ FetchIdle /\ RefIdle /\ JoinIdle /\ PagerIdle
Spec == Init /\ [][Next]_vars

-----------------------------------------------------------------------------
(* Properties of the page (checked under Spec) *)

\* the matching rule as section 4.4 of the specification words it, without
\* split: q is the name, a prefix of it, or a maximal hyphen-free stretch of it
RuleWord(n, q) ==
    \E a \in 1..(Len(n) + 1) :
        LET b == a + Len(q)
        IN  /\ b <= Len(n) + 1
            /\ a = 1 \/ n[a - 1] = "-"
            /\ b = Len(n) + 1 \/ n[b] = "-"
            /\ SubSeq(n, a, b - 1) = q
            /\ \A k \in a..(b - 1) : n[k] # "-"
RuleMatches(name, q) ==
    LET n == ToLowerCase(name)
    IN  n = q \/ (Len(q) <= Len(n) /\ SubSeq(n, 1, Len(q)) = q) \/ RuleWord(n, q)
RuleQuery(term) == Trim(ToLowerCase(term))
NoEntryMatches(names, term) ==
    \A i \in 1..Len(names) : ~RuleMatches(names[i].name, RuleQuery(term))

\* a step in which loadPokemon starts: the effect runs when a dependency of
\* line 156 was set, and at the first render
LoadStarts ==
    <<searchTerm, currentPage, namesFetch>>' # <<searchTerm, currentPage, namesFetch>>

\* the step issues the listing request for the rendered page
ListRequested ==
    \E l \in BagToSet(loads') :
        /\ l.mode = "browse" /\ l.stage = "list"
        /\ l.term = searchTerm' /\ l.page = currentPage'
        /\ CopiesIn(l, loads') = CopiesIn(l, loads) + 1

\* C1: immediately after the query is changed currentPage is 1, whatever
\* query is set and whatever page was current before
C1_QueryChangeResetsPage ==
    [][searchTerm' # searchTerm => currentPage' = 1]_vars

\* the query was changed on page 2 and nothing has changed query or page since
C1_Witness ==
    /\ started.by = "query" /\ started.before = 2
    /\ currentPage = 1 /\ searchTerm # <<>>

\* C2: in every reachable state currentPage >= 1 and
\* currentPage <= max(totalPages, 1)
C2_PageWithinRange ==
    currentPage >= 1 /\ currentPage <= Max(totalPages, 1)

\* C3: a load runs in Searching mode exactly when, as it starts, the query
\* is non-empty and the name index is non-empty; otherwise it runs in
\* Browsing mode and requests the listing
C3_ModeOfLoad ==
    [][LoadStarts =>
         /\ started'.mode = "search"
               <=> (searchTerm' # <<>> /\ allPokemonNames' # <<>>)
         /\ started'.mode = "browse"
               <=> ~(searchTerm' # <<>> /\ allPokemonNames' # <<>>)
         /\ started'.mode = "browse" => ListRequested
         /\ started'.mode = "search" => loads' (-) loads \sqsubseteq
               SetToBag({l \in BagToSet(loads') : l.mode = "search"})
    ]_vars

\* a query typed while the index is still empty is served by Browsing
C3_Witness ==
    /\ started.by = "query" /\ started.mode = "browse"
    /\ searchTerm # <<>> /\ allPokemonNames = <<>> /\ namesFetch = "pending"

\* C4 as stated: when the load for a non-empty query that matches no entry
\* of the name index completes, totalPages = 0 and the record list is empty
C4_NoMatchGivesNothing ==
    [][(\/ \E l \in BagToSet(loads) :
              /\ RecordsArrive(l) \/ (ListArrives(l) /\ loads' = Settle(l))
              /\ l.term = searchTerm /\ l.page = currentPage
              /\ l.term # <<>>
              /\ NoEntryMatches(allPokemonNames, l.term)
        \/ /\ LoadStarts /\ loads' = loads
           /\ searchTerm' # <<>>
           /\ NoEntryMatches(allPokemonNames', searchTerm'))
       => (totalPages' = 0 /\ pokemonList' = <<>>)
    ]_vars

\* C4 amended: with a non-empty name index, the load for a non-empty query
\* that matches no entry completes with totalPages = 0 and an empty list
C4_NoMatchInIndexGivesNothing ==
    [][(/\ LoadStarts
        /\ searchTerm' # <<>> /\ allPokemonNames' # <<>>
        /\ NoEntryMatches(allPokemonNames', searchTerm'))
       => (/\ loads' = loads
           /\ totalPages' = 0 /\ pokemonList' = <<>>
           /\ ~loading' /\ error' = Null)
    ]_vars

C4_Witness ==
    /\ started.mode = "search" /\ started.by = "query"
    /\ searchTerm = <<"z">> /\ allPokemonNames # <<>>
    /\ NoEntryMatches(allPokemonNames, searchTerm)
    /\ totalPages = 0 /\ pokemonList = <<>> /\ ~loading

\* C9: a failed bulk fetch leaves an empty index and no error, and every
\* load from then on, whatever the query, is a Browsing load that requests
\* the listing page (currentPage - 1) * 12
C9_FailedIndexMeansBrowsing ==
    [][(namesFetch' = "failed" /\ LoadStarts) =>
         /\ allPokemonNames' = <<>>
         /\ error' = Null
         /\ started'.mode = "browse"
         /\ ListRequested
    ]_vars

\* after the failure a query was typed and answered with a listing page
C9_Witness ==
    /\ namesFetch = "failed" /\ allPokemonNames = <<>>
    /\ started.by = "query" /\ started.mode = "browse"
    /\ searchTerm # <<>> /\ error = Null
    /\ ~loading /\ pokemonList # <<>> /\ loads = EmptyBag

-----------------------------------------------------------------------------
(* Search runs: the Searching branch of loadPokemon (page.tsx 80-129) as a   *)
(* computation on an index, a query and a page, each drawn from a bounded    *)
(* set.                                                                      *)

SearchNames ==
    {Chars("bulbasaur"), Chars("ivysaur"), Chars("venusaur-mega"),
     Chars("venusaur"), Chars("Mr-Mime")}

SearchTerms ==
    {Chars(""), Chars(" "), Chars("saur"), Chars("venusaur"),
     Chars(" VenuSaur "), Chars("venusaur-mega"), Chars("mega"),
     Chars("Mr-Mime"), Chars("mime"), Chars("bulba"), Chars("a"),
     Chars("AB"), Chars(" \t")}

\* an index whose i-th entry has identifier i
IndexOf(names) == AsSeq([i \in 1..Len(names) |-> [name |-> names[i], id |-> i]])

RECURSIVE SeqsUpTo(_, _)
SeqsUpTo(S, n) ==
    IF n = 0 THEN {<<>>}
    ELSE SeqsUpTo(S, n - 1)
         \cup {Append(q, x) : q \in SeqsUpTo(S, n - 1), x \in S}

\* every short index over SearchNames, and the first n catalog entries
SearchIndexes ==
    {IndexOf(names) : names \in SeqsUpTo(SearchNames, MaxIndexLen)}
    \cup {NamesOf(CatalogOf(n)) : n \in 1..MaxBigIndex}

ScenarioIndex ==
    IndexOf(<<Chars("bulbasaur"), Chars("ivysaur"), Chars("venusaur-mega")>>)

SearchInputs ==
    /\ mIndex \in SearchIndexes
    /\ mTerm \in SearchTerms
    /\ mPage \in 0..MaxPage
    /\ mOut = NoOutput

\* page.tsx 80-129: the matches, the accepting return statement of each, the
\* value set as totalPages, and the ids handed to fetchPokemon
SearchOutput(run) ==
    LET q       == NormalizeSearchTerm(mTerm)
        matches == FilterNames(mIndex, q)
    IN  [runs       |-> run,
         matches    |-> IdsOf(matches),
         via        |-> AsSeq([i \in 1..Len(matches) |->
                                 MatchClause(matches[i].name, q)]),
         totalPages |-> SearchTotalPages(mIndex, mTerm),
         ids        |-> IdsOf(FilteredNames(mIndex, mTerm, mPage))]

RunSearch ==
    /\ mOut = NoOutput
    /\ UseSearch(mTerm, mIndex)
    /\ mOut' = SearchOutput(1)
    /\ UNCHANGED <<mIndex, mTerm, mPage, homeVars, fetchVars, refVars,
                   joinVars, pagerVars>>

\* the effect runs again for the same index, query and page (a re-render
\* with an equal, newly typed query)
RunSearchAgain ==
    /\ mOut.runs = 1
    /\ UseSearch(mTerm, mIndex)
    /\ mOut' = SearchOutput(2)
    /\ UNCHANGED <<mIndex, mTerm, mPage, homeVars, fetchVars, refVars,
                   joinVars, pagerVars>>

SearchInit ==
    HomeInit /\ SearchInputs /\ FetchIdle /\ RefIdle /\ JoinIdle /\ PagerIdle

SearchNext == RunSearch \/ RunSearchAgain

SearchSpec == SearchInit /\ [][SearchNext]_vars

Elements(seq) == {seq[i] : i \in 1..Len(seq)}

\* the entries of the index that the rule of section 4.4 accepts
RuleMatching(index, term) ==
    {i \in 1..Len(index) : RuleMatches(index[i].name, RuleQuery(term))}

\* C5: when the query is exactly the name of an index entry, the identifier
\* of that entry is among the matches, whatever else matches
C5_ExactNameIsMatched ==
    mOut # NoOutput =>
        \A i \in 1..Len(mIndex) :
            mIndex[i].name = mTerm => mIndex[i].id \in Elements(mOut.matches)

\* the query is the name of one entry and a prefix of another entry's name
C5_Witness ==
    /\ mOut # NoOutput
    /\ \E i, j \in 1..Len(mIndex) :
          /\ mIndex[i].name = mTerm
          /\ mIndex[j].name # mTerm
          /\ StartsWith(mIndex[j].name, mTerm)
          /\ {mIndex[i].id, mIndex[j].id} \subseteq Elements(mOut.matches)

\* C6 as stated: an entry with a hyphen-separated word equal to the query
\* matches; in the scenario "venusaur" matches only id 3, accepted as a
\* whole word and not as a prefix of "venusaur-mega"
C6_WordMatchNotPrefix ==
    mOut # NoOutput =>
        /\ \A i \in 1..Len(mIndex) :
              RuleWord(ToLowerCase(mIndex[i].name), RuleQuery(mTerm))
                  => mIndex[i].id \in Elements(mOut.matches)
        /\ (mIndex = ScenarioIndex /\ mTerm = Chars("venusaur"))
              => /\ mOut.matches = <<3>>
                 /\ mOut.via = <<"word">>
                 /\ ~StartsWith(Chars("venusaur-mega"), Chars("venusaur"))

\* C6 amended: an entry with a hyphen-separated word equal to the query
\* matches, also when the query is no prefix of the name; in the scenario
\* "venusaur" matches only id 3, of whose name it is a word and a prefix as
\* well, and the prefix test is the one that accepts it
C6_WordMatch ==
    mOut # NoOutput =>
        /\ \A i \in 1..Len(mIndex) :
              RuleWord(ToLowerCase(mIndex[i].name), RuleQuery(mTerm))
                  => mIndex[i].id \in Elements(mOut.matches)
        /\ (mIndex = ScenarioIndex /\ mTerm = Chars("venusaur"))
              => /\ mOut.matches = <<3>>
                 /\ mOut.via = <<"prefix">>
                 /\ RuleWord(Chars("venusaur-mega"), Chars("venusaur"))
                 /\ StartsWith(Chars("venusaur-mega"), Chars("venusaur"))

C6_Witness ==
    /\ mOut # NoOutput /\ mIndex = ScenarioIndex /\ mTerm = Chars("venusaur")
    /\ mOut.matches = <<3>>

\* C7: an entry in whose name the query occurs only inside or at the end
\* (not the name, not a prefix, not a hyphen-separated word) is not matched;
\* in the scenario "saur" gives no match, totalPages 0 and no record
C7_InteriorSubstringNoMatch ==
    mOut # NoOutput =>
        /\ \A i \in 1..Len(mIndex) :
              (/\ Includes(ToLowerCase(mIndex[i].name), RuleQuery(mTerm))
               /\ ~RuleMatches(mIndex[i].name, RuleQuery(mTerm)))
                  => mIndex[i].id \notin Elements(mOut.matches)
        /\ RuleMatching(mIndex, mTerm) = {}
              => mOut.matches = <<>> /\ mOut.totalPages = 0 /\ mOut.ids = <<>>
        /\ (mIndex = ScenarioIndex /\ mTerm = Chars("saur"))
              => mOut.matches = <<>> /\ mOut.totalPages = 0 /\ mOut.ids = <<>>

C7_Witness ==
    /\ mOut # NoOutput /\ mIndex = ScenarioIndex /\ mTerm = Chars("saur")
    /\ \A i \in 1..3 : Includes(mIndex[i].name, mTerm)
    /\ mOut.matches = <<>> /\ mOut.totalPages = 0 /\ mOut.ids = <<>>

\* C8: totalPages is the least t with 12 * t >= matchCount, a page p in
\* 1..totalPages has min(12, matchCount - 12 * (p - 1)) ids to resolve, and
\* 13 matches give 2 pages, the second with 1 id
C8_PageArithmetic ==
    mOut # NoOutput =>
        LET matchCount == Cardinality(RuleMatching(mIndex, mTerm))
        IN  /\ 12 * mOut.totalPages >= matchCount
            /\ 12 * (mOut.totalPages - 1) < matchCount
            /\ (1 <= mPage /\ mPage <= mOut.totalPages)
                  => Len(mOut.ids) = Min(12, matchCount - 12 * (mPage - 1))
            /\ matchCount = 13
                  => /\ mOut.totalPages = 2
                     /\ mPage = 2 => Len(mOut.ids) = 1

C8_Witness ==
    /\ mOut # NoOutput
    /\ Cardinality(RuleMatching(mIndex, mTerm)) = 13
    /\ Len(mIndex) > 13 /\ mTerm = Chars("a")
    /\ mPage = 2 /\ mOut.totalPages = 2 /\ Len(mOut.ids) = 1

-----------------------------------------------------------------------------
(* fetchPokemon (helpers.ts 34-132) as a process: the primary fetch, then    *)
(* the ability fetches joined by Promise.all, then the move fetches joined   *)
(* by Promise.all.  A slot of fAbilities / fMoves is one promise of the      *)
(* mapped array, pending or settled with the outcome of its fetch.           *)

DESCRIPTION_UNAVAILABLE == "Description unavailable."
NO_DESCRIPTION          == "No description available."
DEFAULT_TYPE            == "normal"

\* what the server lists in a primary record: n abilities and m moves
AbilityData(i) == [ability |-> i]
MoveData(i)    == [move |-> i]
PokemonOf(id, n, m) ==
    [id        |-> id,
     abilities |-> AsSeq([i \in 1..n |-> AbilityData(i)]),
     moves     |-> AsSeq([i \in 1..m |-> MoveData(i)])]

PrimaryShapes == {<<0, 0>>, <<1, 2>>, <<MaxAbilities, MaxMoves>>}
PrimaryResponses ==
    {[kind |-> "ok", shape |-> sh] : sh \in PrimaryShapes}
    \cup {[kind |-> k, shape |-> <<0, 0>>] : k \in {"non2xx", "transport"}}

\* what the server holds for an ability and for a move
AbilityDetails(i) == [effect |-> "ability effect"]
\* a JavaScript value of a numeric field: a number, null, or undefined (the
\* value read from a field the object does not have)
Num(n)      == [t |-> "number", n |-> n]
JsNull      == [t |-> "null", n |-> 0]
JsUndefined == [t |-> "undefined", n |-> 0]

\* layout.tsx 100-117: power and accuracy of a move are a number or null (a
\* status move has neither); here the even moves are status moves
MoveDetails(i) ==
    [short_effect |-> "move effect",
     power        |-> IF i % 2 = 0 THEN JsNull ELSE Num(40),
     accuracy     |-> IF i % 2 = 0 THEN JsNull ELSE Num(100),
     pp           |-> Num(35),
     type         |-> "grass"]

AbilityOutcomes == {"ok", "noEnglish", "non2xx", "transport"}
MoveOutcomes    == {"ok", "noEnglish", "non2xx", "transport", "timeout"}
Failed(outcome) == outcome \in {"non2xx", "transport", "timeout"}

\* helpers.ts 45-69: the value one ability promise resolves to
EnrichAbility(abilityData, outcome) ==
    [ability     |-> abilityData.ability,
     description |-> IF Failed(outcome) THEN DESCRIPTION_UNAVAILABLE
                     ELSE IF outcome = "ok"
                          THEN AbilityDetails(abilityData.ability).effect
                          ELSE NO_DESCRIPTION]

\* helpers.ts 75-120: the value one move promise resolves to
EnrichMove(moveData, outcome) ==
    IF Failed(outcome)
    THEN [move        |-> moveData.move,
          description |-> DESCRIPTION_UNAVAILABLE,
          type        |-> DEFAULT_TYPE]
    ELSE LET moveDetails == MoveDetails(moveData.move)
         IN  [move        |-> moveData.move,
              description |-> IF outcome = "ok" THEN moveDetails.short_effect
                              ELSE NO_DESCRIPTION,
              power       |-> moveDetails.power,
              accuracy    |-> moveDetails.accuracy,
              pp          |-> moveDetails.pp,
              type        |-> moveDetails.type]

\* helpers.ts 44 and 74: the sub-items that are fetched
AllOf(items, cap)   == items
FirstOf(items, cap) == Slice(items, 0, cap)

Pending == [outcome |-> "pending"]
PendingSlots(items) == AsSeq([i \in 1..Len(items) |-> Pending])
\* a fetch that is never answered and that nothing ends
Hung == [outcome |-> "hung"]
Settled(slots) ==
    \A i \in 1..Len(slots) : slots[i].outcome \notin {"pending", "hung"}
ValuesOf(slots) == AsSeq([i \in 1..Len(slots) |-> slots[i].value])
Faults(slots) ==
    Cardinality({i \in 1..Len(slots) : slots[i].outcome \notin {"pending", "ok"}})

\* helpers.ts 122-126
ResultOf(pokemon, abilities, moves) ==
    [kind  |-> "record",
     value |-> [id        |-> pokemon.id,
                abilities |-> ValuesOf(abilities),
                moves     |-> ValuesOf(moves)]]

\* the continuation after the abilities are joined: helpers.ts 73-126
StartMoves(pokemon, abilities) ==
    LET items == FirstOf(pokemon.moves, MOVE_CAP)
    IN  /\ fMoves' = PendingSlots(items)
        /\ IF items = <<>>
           THEN fpc' = "done" /\ fResult' = ResultOf(pokemon, abilities, <<>>)
           ELSE fpc' = "moves" /\ fResult' = fResult

FetchFrame ==
    UNCHANGED <<homeVars, matchVars, refVars, joinVars, pagerVars>>

\* helpers.ts 34-36
CallFetchPokemon ==
    /\ fpc = "idle"
    /\ fpc' = "primary"
    /\ UNCHANGED <<fPokemon, fAbilities, fMoves, fResult>>
    /\ FetchFrame

\* helpers.ts 36-44 and 127-130
PrimaryArrives(response) ==
    /\ fpc = "primary"
    /\ IF response.kind = "ok"
       THEN LET pokemon == PokemonOf(1, response.shape[1], response.shape[2])
                items   == FirstOf(pokemon.abilities, ABILITY_CAP)
            IN  /\ fPokemon' = pokemon
                /\ fAbilities' = PendingSlots(items)
                /\ IF items = <<>>
                   THEN StartMoves(pokemon, <<>>)
                   ELSE fpc' = "abilities" /\ UNCHANGED <<fMoves, fResult>>
       ELSE /\ fpc' = "failed"
            /\ fResult' = [kind |-> "error"]
            /\ UNCHANGED <<fPokemon, fAbilities, fMoves>>
    /\ FetchFrame

\* helpers.ts 36: the primary fetch has no deadline; when the server never
\* answers, the await never ends
PrimaryHangs ==
    /\ fpc = "primary"
    /\ fpc' = "hung"
    /\ UNCHANGED <<fPokemon, fAbilities, fMoves, fResult>>
    /\ FetchFrame

\* helpers.ts 48: the ability fetch has no deadline either, and Promise.all
\* (line 43) waits for it
AbilityHangs(i) ==
    /\ fpc = "abilities"
    /\ i \in 1..Len(fAbilities)
    /\ fAbilities[i] = Pending
    /\ Faults(fAbilities) < MaxFaults
    /\ fAbilities' = [fAbilities EXCEPT ![i] = Hung]
    /\ UNCHANGED <<fpc, fPokemon, fMoves, fResult>>
    /\ FetchFrame

\* helpers.ts 45-71
AbilitySettles(i, outcome) ==
    /\ fpc = "abilities"
    /\ i \in 1..Len(fAbilities)
    /\ fAbilities[i] = Pending
    /\ outcome = "ok" \/ Faults(fAbilities) < MaxFaults
    /\ LET abilities ==
               [fAbilities EXCEPT ![i] =
                   [outcome |-> outcome,
                    value   |-> EnrichAbility(fPokemon.abilities[i], outcome)]]
       IN  /\ fAbilities' = abilities
           /\ IF Settled(abilities)
              THEN StartMoves(fPokemon, abilities)
              ELSE UNCHANGED <<fpc, fMoves, fResult>>
    /\ UNCHANGED fPokemon
    /\ FetchFrame

\* helpers.ts 75-126
MoveSettles(i, outcome) ==
    /\ fpc = "moves"
    /\ i \in 1..Len(fMoves)
    /\ fMoves[i] = Pending
    /\ \A j \in 1..(i - MaxAhead - 1) : fMoves[j] # Pending
    /\ outcome = "ok" \/ Faults(fAbilities) + Faults(fMoves) < MaxFaults
    /\ LET moves ==
               [fMoves EXCEPT ![i] =
                   [outcome |-> outcome,
                    value   |-> EnrichMove(fPokemon.moves[i], outcome)]]
       IN  /\ fMoves' = moves
           /\ IF Settled(moves)
              THEN fpc' = "done" /\ fResult' = ResultOf(fPokemon, fAbilities, moves)
              ELSE UNCHANGED <<fpc, fResult>>
    /\ UNCHANGED <<fPokemon, fAbilities>>
    /\ FetchFrame

FetchNext ==
    \/ CallFetchPokemon
    \/ PrimaryHangs
    \/ \E i \in 1..MaxAbilities : AbilityHangs(i)
    \/ \E response \in PrimaryResponses : PrimaryArrives(response)
    \/ \E i \in 1..MaxAbilities, outcome \in AbilityOutcomes :
          AbilitySettles(i, outcome)
    \/ \E i \in 1..MaxMoves, outcome \in MoveOutcomes : MoveSettles(i, outcome)

FetchSpec == Init /\ [][FetchNext]_vars

\* the items of a bundle that carry a sentinel field
HasSentinel(item) == item.description = DESCRIPTION_UNAVAILABLE

-----------------------------------------------------------------------------
(* The moves tooltip of PokemonCard (PokemonCard.tsx 185-206) reads power    *)
(* and accuracy off the enriched move.                                       *)

\* PokemonCard.tsx 185: destructuring, a missing field reads as undefined
PowerOf(item) ==
    IF "power" \in DOMAIN item THEN item.power ELSE JsUndefined
AccuracyOf(item) ==
    IF "accuracy" \in DOMAIN item THEN item.accuracy ELSE JsUndefined

\* PokemonCard.tsx 203-204: the labels the tooltip renders
ShowsPower(item)    == PowerOf(item) # JsNull
ShowsAccuracy(item) == AccuracyOf(item) # JsNull

\* C11: a move whose fetch timed out or returned non-2xx is enriched with the
\* sentinel description, the type "normal", and null power and accuracy
C11_FailedMoveHasNullNumbers ==
    \A i \in 1..Len(fMoves) :
        fMoves[i].outcome \in {"timeout", "non2xx"} =>
            /\ fMoves[i].value.description = DESCRIPTION_UNAVAILABLE
            /\ fMoves[i].value.type = "normal"
            /\ PowerOf(fMoves[i].value) = JsNull
            /\ AccuracyOf(fMoves[i].value) = JsNull

-----------------------------------------------------------------------------
(* Which failures reach the error state of the page.                         *)

\* the step in which the bulk index fetch is found to have failed
NamesFetchFailed == namesFetch = "pending" /\ namesFetch' = "failed"

\* C12 as stated: a failed primary record fetch, a failed page listing fetch
\* and a failed bulk index fetch each set the error state; records whose
\* sub-item fetches failed arrive without setting it
C12_RequiredFailuresSetError ==
    [][/\ \A l \in BagToSet(loads) :
             /\ (ListFails(l) \/ RecordsFail(l)) => error' = ErrorMessage
             /\ RecordsArrive(l) => error' = error
       /\ NamesFetchFailed => error' = ErrorMessage
    ]_vars

\* C12 amended: a failed primary record fetch and a failed page listing
\* fetch set the error state, and nothing else does; a failed bulk index
\* fetch leaves an empty index and no error, and the load it starts clears
\* the error; arriving records never change the error state
C12_ListAndRecordFailuresSetError ==
    [][/\ \A l \in BagToSet(loads) :
             /\ (ListFails(l) \/ RecordsFail(l)) => error' = ErrorMessage
             /\ RecordsArrive(l) => error' = error
       /\ NamesFetchFailed => error' = Null /\ allPokemonNames' = <<>>
       /\ (error' # Null /\ error' # error) =>
             \E l \in BagToSet(loads) :
                 /\ l.stage = "list" \/ (l.stage = "records" /\ l.ids # <<>>)
                 /\ loads' = Settle(l)
                 /\ ~loading'
    ]_vars

\* the index fetch failed and a later listing or record failure is shown
C12_Witness ==
    /\ namesFetch = "failed" /\ allPokemonNames = <<>>
    /\ error = ErrorMessage /\ ~loading /\ loads = EmptyBag

-----------------------------------------------------------------------------
(* The name index of the session.                                            *)

\* C13: the bulk index fetch is issued once and settles once, the index is
\* written only when that fetch settles, and a populated index never changes
C13_IndexWrittenOnce ==
    [][/\ namesFetch' # namesFetch =>
             \/ namesFetch = "idle" /\ namesFetch' = "pending"
             \/ namesFetch = "pending" /\ namesFetch' \in {"ok", "failed"}
       /\ allPokemonNames' # allPokemonNames =>
             /\ namesFetch = "pending" /\ namesFetch' = "ok"
             /\ allPokemonNames = <<>>
       /\ allPokemonNames # <<>> => allPokemonNames' = allPokemonNames
    ]_vars

\* the index is populated, and a query edit and then a page change followed
C13_Witness ==
    /\ namesFetch = "ok" /\ allPokemonNames = NamesOf(Catalog)
    /\ started.by = "page" /\ searchTerm # <<>> /\ loads = EmptyBag

-----------------------------------------------------------------------------
(* Loads that overlap.                                                       *)

\* the load started last is a search for the query and page now shown
SearchIsCurrent ==
    /\ started.mode = "search" /\ started.by = "query"
    /\ UseSearch(searchTerm, allPokemonNames)

\* C14: a step that starts a load leaves every load in flight where it is
\* and adds its own, also next to an equal one; a load that completes writes
\* its records (its total, for a listing) whether or not its query and page
\* are still the current ones
C14_StaleLoadOverwrites ==
    [][/\ LoadStarts => loads \sqsubseteq loads'
       /\ (LoadStarts /\ loading') =>
             BagCardinality(loads') = BagCardinality(loads) + 1
       /\ \A l \in BagToSet(loads) :
             /\ (CopiesIn(l, loads') < CopiesIn(l, loads) /\ RecordsArrive(l)) =>
                   /\ Len(pokemonList') = Len(l.ids)
                   /\ \A i \in 1..Len(l.ids) : pokemonList'[i].id = l.ids[i]
             /\ (/\ l.term # searchTerm \/ l.page # currentPage
                 /\ CopiesIn(l, loads') < CopiesIn(l, loads)
                 /\ ListArrives(l))
                   => 12 * totalPages' >= CatalogSize
                      /\ 12 * (totalPages' - 1) < CatalogSize
    ]_vars

\* a Browsing load started before the query was typed ended after the search
\* for it: the first listing page and its total are shown for the query
C14_Witness ==
    /\ SearchIsCurrent /\ loads = EmptyBag /\ ~loading /\ error = Null
    /\ currentPage = 1
    /\ IdsOf(pokemonList) # IdsOf(FilteredNames(allPokemonNames, searchTerm, 1))
    /\ Len(pokemonList) = 12 /\ pokemonList[1].id = 1
    /\ totalPages # SearchTotalPages(allPokemonNames, searchTerm)

-----------------------------------------------------------------------------
(* Termination of fetchPokemon.  Every response the network delivers is      *)
(* handled and every timer that was set fires, so a step of fetchPokemon     *)
(* that stays possible is eventually taken.                                  *)

FetchLiveSpec == Init /\ [][FetchNext]_vars /\ WF_vars(FetchNext)

\* C15: every network call completes, fails or times out, so a call of
\* fetchPokemon that was started returns a record or an error, and the load
\* awaiting it finishes
C15_EveryCallReturns ==
    (fpc = "primary") ~> (fpc \in {"done", "failed"})

-----------------------------------------------------------------------------
(* Order of the search results.                                              *)

\* the identifiers of the entries the rule of section 4.4 accepts, in the
\* order of the index
RECURSIVE RuleFiltered(_, _, _)
RuleFiltered(index, term, i) ==
    IF i > Len(index) THEN <<>>
    ELSE (IF RuleMatches(index[i].name, RuleQuery(term))
          THEN <<index[i].id>> ELSE <<>>)
         \o RuleFiltered(index, term, i + 1)

C17_ExactMatchFirst ==
    mOut # NoOutput =>
        \A i, j \in 1..Len(mOut.via) :
            (i < j /\ mOut.via[j] = "exact") => mOut.via[i] = "exact"

-----------------------------------------------------------------------------
(* A Browsing load.                                                          *)

\* the identifiers of the catalog entries a listing with this offset holds
ListedIds(offset) ==
    LET from == Max(offset, 0)
        to   == Min(from + 12, CatalogSize)
    IN  AsSeq([k \in 1..Max(to - from, 0) |-> from + k])

\* C18: a Browsing load for page p requests the listing with limit 12 and
\* offset (p-1)*12; when the listing arrives totalPages becomes
\* ceil(count / 12) and the records of exactly the listed identifiers are
\* requested; these are the records shown when they arrive
C18_BrowsingLoad ==
    [][/\ (LoadStarts /\ started'.mode = "browse") =>
             \E l \in BagToSet(loads') :
                 /\ CopiesIn(l, loads') = CopiesIn(l, loads) + 1
                 /\ l.stage = "list" /\ l.page = currentPage'
                 /\ l.request = [limit |-> 12, offset |-> (currentPage' - 1) * 12]
       /\ \A l \in BagToSet(loads) :
             /\ (CopiesIn(l, loads') < CopiesIn(l, loads) /\ ListArrives(l)) =>
                   /\ 12 * totalPages' >= CatalogSize
                   /\ 12 * (totalPages' - 1) < CatalogSize
                   /\ LET ids == ListedIds((l.page - 1) * 12)
                      IN  IF ids = <<>>
                          THEN pokemonList' = <<>> /\ loads' = Settle(l)
                          ELSE \E r \in BagToSet(loads') :
                                  /\ r.stage = "records" /\ r.ids = ids
                                  /\ r.page = l.page /\ r.term = l.term
                                  /\ CopiesIn(r, loads') = CopiesIn(r, loads) + 1
             /\ (/\ l.mode = "browse"
                 /\ CopiesIn(l, loads') < CopiesIn(l, loads)
                 /\ RecordsArrive(l)) =>
                   /\ IdsOf(pokemonList') = ListedIds((l.page - 1) * 12)
                   /\ ~loading'
    ]_vars

\* the second listing page was requested, and its one record is shown
C18_Witness ==
    /\ started.mode = "browse" /\ started.by = "page" /\ currentPage = 2
    /\ searchTerm = <<>> /\ loads = EmptyBag /\ ~loading /\ error = Null
    /\ totalPages = 2 /\ IdsOf(pokemonList) = <<13>>

-----------------------------------------------------------------------------
(* What the page shows when no load is running (page.tsx 187-226).           *)

\* page.tsx 188-192: {error && ...}
ShowsError == error # Null

\* page.tsx 195-210: not loading, and pokemonList.length === 0
ShowsNoResults == ~loading /\ pokemonList = <<>>

\* C19: when no load is in flight, the "no results" message and the error
\* message are not both shown
C19_EmptyIsNotError ==
    loads = EmptyBag => ~(ShowsNoResults /\ ShowsError)

-----------------------------------------------------------------------------
(* Identifier extraction (helpers.ts 173-179, page.tsx 139-142) applied to   *)
(* listing summaries whose url is drawn from well-formed and malformed       *)
(* references.                                                               *)

RefPrefixes == {Chars("/pokemon/"), Chars("/pokemon")}
RefSegments ==
    {Chars("1"), Chars("25"), Chars("007"), Chars("12abc"), Chars("abc"),
     Chars(""), Chars("-3"), Chars("1.5"), Chars(" 4"), Chars("4 ")}
RefSuffixes == {Chars("/"), Chars("")}
References ==
    {p \o seg \o suf : p \in RefPrefixes, seg \in RefSegments,
                       suf \in RefSuffixes}

RefInit ==
    /\ HomeInit /\ MatchIdle /\ FetchIdle /\ JoinIdle /\ PagerIdle
    /\ xResults \in {<<[name |-> Chars("a"), url |-> u]>> : u \in References}
    /\ xOut = NoExtraction

RefFrame ==
    UNCHANGED <<xResults, homeVars, matchVars, fetchVars, joinVars, pagerVars>>

\* helpers.ts 173-179: the summaries become entries of the name index
BuildIndex ==
    /\ xOut = NoExtraction
    /\ xOut' = [kind |-> "index", index |-> NamesOf(xResults), ids |-> <<>>]
    /\ RefFrame

\* page.tsx 138-143: the summaries' ids are passed to fetchPokemon
ResolveList ==
    /\ xOut = NoExtraction
    /\ xOut' = [kind  |-> "fetch", index |-> <<>>,
                ids   |-> AsSeq([k \in 1..Len(xResults) |->
                                   ExtractId(xResults[k].url)])]
    /\ RefFrame

RefNext == BuildIndex \/ ResolveList

RefSpec == RefInit /\ [][RefNext]_vars

\* the part of a reference between its last two slashes, when it ends with
\* a slash and has another one before
RECURSIVE LastSlash(_, _)
LastSlash(s, i) ==
    IF i = 0 THEN 0 ELSE IF s[i] = "/" THEN i ELSE LastSlash(s, i - 1)

EndsWithSlash(url) == url # <<>> /\ url[Len(url)] = "/"
TrailingSegment(url) ==
    SubSeq(url, LastSlash(url, Len(url) - 1) + 1, Len(url) - 1)
AllDigits(s) == s # <<>> /\ \A i \in 1..Len(s) : IsDigit(s[i])
WellFormed(url) ==
    /\ EndsWithSlash(url) /\ LastSlash(url, Len(url) - 1) > 0
    /\ AllDigits(TrailingSegment(url))

\* the identifiers the extraction let through
Extracted ==
    IF xOut.kind = "index" THEN IdsOf(xOut.index) ELSE xOut.ids

\* C20: from a well-formed reference the identifier is the number written
\* in the segment before the trailing slash; a malformed reference ends the
\* extraction with a DataShapeError, so that no identifier made from it
\* enters the name index or is passed to fetchPokemon
C20_MalformedReferenceFails ==
    xOut # NoExtraction =>
        \A k \in 1..Len(xResults) :
            IF WellFormed(xResults[k].url)
            THEN Extracted[k] = ParseDigits(TrailingSegment(xResults[k].url), 0)
            ELSE xOut.kind = "error"

-----------------------------------------------------------------------------
(* The page values the Pagination control hands to onPageChange.             *)

\* part_003 88-130: the values the enabled buttons pass to onPageChange (a
\* disabled button passes none; every numbered button is enabled)
EnabledTargets(page, total) ==
    (IF PreviousDisabled(page, total) THEN {} ELSE {PreviousTarget(page, total)})
    \cup (IF NextDisabled(page, total) THEN {} ELSE {NextTarget(page, total)})
    \cup {pn.page : pn \in {e \in Elements(GetPageNumbers(page, total)) :
                               e.kind = "number"}}

\* C21: whenever the Pagination control is shown, every page value an enabled
\* Previous, Next or page-number button passes to onPageChange lies in
\* 1..max(totalPages, 1)
C21_ClickedPagesInRange ==
    PaginationShown =>
        \A p \in EnabledTargets(currentPage, totalPages) :
            p >= 1 /\ p <= Max(totalPages, 1)

-----------------------------------------------------------------------------
(* Normalization of the query and of the index names.                        *)

\* String.prototype.toUpperCase, used to write another spelling of a text
UpperChar(c) ==
    IF \E i \in 1..Len(LowerCase) : LowerCase[i] = c
    THEN UpperCase[CHOOSE i \in 1..Len(LowerCase) : LowerCase[i] = c]
    ELSE c
ToUpperCase(s) == AsSeq([i \in 1..Len(s) |-> UpperChar(s[i])])

\* two texts that are equal once the white space around them is dropped and
\* the case of their letters is disregarded
SameLetters(a, b) ==
    Len(a) = Len(b) /\ \A i \in 1..Len(a) : LowerChar(a[i]) = LowerChar(b[i])
SameQuery(a, b) == SameLetters(Trim(a), Trim(b))

\* other spellings of a query: its letters in the other case, white space
\* before and after it
Variants(term) ==
    {ToUpperCase(term), <<"\n", " ">> \o ToLowerCase(term) \o <<"\t">>}

\* the index with every name in capitals
UpperIndex(index) ==
    AsSeq([i \in 1..Len(index) |->
              [name |-> ToUpperCase(index[i].name), id |-> index[i].id]])

\* C22: a query that differs from the one searched only in letter case or in
\* white space around it gives the same matches, the same totalPages and the
\* same page of ids, and the matches do not depend on the letter case of the
\* index names
C22_QueryNormalized ==
    mOut # NoOutput =>
        /\ \A t \in SearchTerms \cup Variants(mTerm) :
              (t # mTerm /\ SameQuery(t, mTerm) /\ UseSearch(t, mIndex)) =>
                  LET found == FilterNames(mIndex, NormalizeSearchTerm(t))
                  IN  /\ IdsOf(found) = mOut.matches
                      /\ CeilDiv(Len(found), ITEMS_PER_PAGE) = mOut.totalPages
                      /\ IdsOf(Slice(found, (mPage - 1) * ITEMS_PER_PAGE,
                                     mPage * ITEMS_PER_PAGE)) = mOut.ids
        /\ IdsOf(FilterNames(UpperIndex(mIndex), NormalizeSearchTerm(mTerm)))
              = mOut.matches

\* " VenuSaur " was searched in an index that holds venusaur and Mr-Mime, and
\* matched as venusaur does
C22_Witness ==
    /\ mOut # NoOutput /\ mTerm = Chars(" VenuSaur ")
    /\ \E i, j \in 1..Len(mIndex) :
          /\ mIndex[i].name = Chars("venusaur")
          /\ mIndex[j].name = Chars("Mr-Mime")
          /\ mOut.matches = <<mIndex[i].id>>
    /\ mOut.totalPages = 1

-----------------------------------------------------------------------------
(* Every state change starts a load.                                         *)

\* a step that changes the query or the page, or in which the bulk index
\* fetch settles
StateChanged ==
    \/ searchTerm' # searchTerm
    \/ currentPage' # currentPage
    \/ namesFetch = "pending" /\ namesFetch' # "pending"

\* the step puts one more load in flight, for the query and page it leaves:
\* a Searching load that awaits the records of ids, or a Browsing load that
\* requests the listing page
NewLoad(mode, ids) ==
    /\ BagCardinality(loads') = BagCardinality(loads) + 1
    /\ \E l \in BagToSet(loads') :
          /\ CopiesIn(l, loads') = CopiesIn(l, loads) + 1
          /\ l.mode = mode /\ l.term = searchTerm' /\ l.page = currentPage'
          /\ IF mode = "search"
             THEN l.stage = "records" /\ l.ids = ids
             ELSE /\ l.stage = "list"
                  /\ l.request = [limit  |-> 12,
                                  offset |-> (currentPage' - 1) * 12]

\* the identifiers the rule of section 4.4 accepts in an index, in index
\* order; those of the whole catalog are tabulated for the queries typed
CatalogIndex == NamesOf(Catalog)
CatalogMatches == [q \in Queries |-> RuleFiltered(CatalogIndex, q, 1)]
MatchesOf(index, term) ==
    IF index = CatalogIndex /\ term \in Queries
    THEN CatalogMatches[term]
    ELSE RuleFiltered(index, term, 1)

\* C23: a query edit, a page change and the arrival of the name index each
\* start a load for the query, page and index the step leaves: a Searching
\* load sets totalPages to the page count of the matches and awaits the
\* records of the page's identifiers (it ends at once when there are none),
\* a Browsing load requests the listing page; the index arriving under a
\* non-empty query starts a Searching load for the unchanged currentPage
C23_StateChangeStartsLoad ==
    [][StateChanged =>
         /\ error' = Null
         /\ IF searchTerm' # <<>> /\ allPokemonNames' # <<>>
            THEN LET matches == MatchesOf(allPokemonNames', searchTerm')
                     first   == (currentPage' - 1) * 12
                     ids     == IF currentPage' >= 1
                                THEN SubSeq(matches, first + 1,
                                            Min(first + 12, Len(matches)))
                                ELSE <<>>
                 IN  /\ started'.mode = "search"
                     /\ 12 * totalPages' >= Len(matches)
                     /\ 12 * (totalPages' - 1) < Len(matches)
                     /\ IF ids = <<>>
                        THEN pokemonList' = <<>> /\ loads' = loads /\ ~loading'
                        ELSE NewLoad("search", ids) /\ loading'
            ELSE /\ started'.mode = "browse"
                 /\ NewLoad("browse", <<>>) /\ loading'
         /\ (namesFetch = "pending" /\ namesFetch' = "ok" /\ searchTerm # <<>>)
               => /\ currentPage' = currentPage /\ searchTerm' = searchTerm
                  /\ started' = [mode |-> "search", by |-> "names",
                                 before |-> currentPage]
    ]_vars

\* the index arrived while the query "a" was shown on listing page 2: the
\* search ran for page 2, which has none of the matches
C23_Witness ==
    /\ started = [mode |-> "search", by |-> "names", before |-> 2]
    /\ currentPage = 2 /\ searchTerm = Chars("a")
    /\ allPokemonNames # <<>> /\ totalPages = 1
    /\ pokemonList = <<>> /\ ~loading

-----------------------------------------------------------------------------
(* Promise.all over the record fetches of a page (page.tsx 127-131 and       *)
(* 138-145): one fetchPokemon call per identifier of the page, all started   *)
(* together; a slot of jSlots is one promise of the mapped array.  A settled *)
(* slot notes how many slots had settled before it.                          *)

MaxJoin == 3   \* identifiers of a joined page

\* pages of identifiers: the first ones of the first listing page and of
\* the first page of matches of the query "a"
PageIdLists ==
    {SubSeq(src, 1, n) :
        n \in 0..MaxJoin,
        src \in {IdsOf(NamesOf(ListResponse(ITEMS_PER_PAGE, 0).results)),
                 IdsOf(FilteredNames(NamesOf(Catalog), Chars("a"), 1))}}

SettledBefore(slots) ==
    Cardinality({i \in 1..Len(slots) : slots[i] # Pending})

\* the array Promise.all resolves to holds the value of the i-th promise at
\* index i
PokemonDetailsByCompletion(slots) ==
    AsSeq([k \in 1..Len(slots) |->
              slots[CHOOSE i \in 1..Len(slots) : slots[i].at = k - 1].value])
PokemonDetails(slots) == ValuesOf(slots)

JoinFrame ==
    UNCHANGED <<homeVars, matchVars, fetchVars, refVars, pagerVars>>

\* page.tsx 127-129 / 138-143: the calls are issued; Promise.all([]) is
\* already resolved and setPokemonList([]) follows
StartJoin(ids) ==
    /\ jpc = "idle"
    /\ jIds' = ids
    /\ jSlots' = PendingSlots(ids)
    /\ IF ids = <<>>
       THEN jpc' = "done" /\ jList' = PokemonDetails(<<>>)
       ELSE jpc' = "waiting" /\ jList' = jList
    /\ JoinFrame

\* fetchPokemon(jIds[i]) resolves; when it was the last one pending, line
\* 131 / 145 stores the joined array
RecordResolves(i) ==
    /\ jpc = "waiting"
    /\ i \in 1..Len(jSlots)
    /\ jSlots[i] = Pending
    /\ LET slots == [jSlots EXCEPT ![i] =
                        [outcome |-> "ok", value |-> RecordOf(jIds[i]),
                         at |-> SettledBefore(jSlots)]]
       IN  /\ jSlots' = slots
           /\ IF Settled(slots)
              THEN jpc' = "done" /\ jList' = PokemonDetails(slots)
              ELSE UNCHANGED <<jpc, jList>>
    /\ UNCHANGED jIds
    /\ JoinFrame

\* fetchPokemon(jIds[i]) rejects: Promise.all rejects and the catch block of
\* line 147 runs; what the other calls resolve to is dropped
RecordRejects(i) ==
    /\ jpc = "waiting"
    /\ i \in 1..Len(jSlots)
    /\ jSlots[i] = Pending
    /\ jSlots' = [jSlots EXCEPT ![i] =
                     [outcome |-> "failed", at |-> SettledBefore(jSlots)]]
    /\ jpc' = "failed"
    /\ UNCHANGED <<jIds, jList>>
    /\ JoinFrame

JoinNext ==
    \/ \E ids \in PageIdLists : StartJoin(ids)
    \/ \E i \in 1..MaxJoin : RecordResolves(i)
    \/ \E i \in 1..MaxJoin : RecordRejects(i)

\* one run at a time: a call of fetchPokemon with its sub-item fetches, or
\* the join of the record fetches of a page
CollectNext ==
    \/ jpc = "idle" /\ FetchNext
    \/ fpc = "idle" /\ JoinNext

CollectSpec == Init /\ [][CollectNext]_vars

\* C24: whatever the order in which the fetches complete, a settled sub-item
\* slot holds the enrichment of the sub-item at its own position, the bundles
\* of the returned record are these values in the order of the inputs, and
\* the i-th record stored for a page is the record of its i-th identifier
C24_PositionalCollection ==
    /\ \A i \in 1..Len(fAbilities) :
          fAbilities[i].outcome \notin {"pending", "hung"} =>
              fAbilities[i].value
                 = EnrichAbility(fPokemon.abilities[i], fAbilities[i].outcome)
    /\ \A i \in 1..Len(fMoves) :
          fMoves[i].outcome \notin {"pending", "hung"} =>
              fMoves[i].value = EnrichMove(fPokemon.moves[i], fMoves[i].outcome)
    /\ fpc = "done" =>
          /\ Len(fResult.value.abilities) = Len(fAbilities)
          /\ \A i \in 1..Len(fAbilities) :
                /\ fResult.value.abilities[i] = fAbilities[i].value
                /\ fResult.value.abilities[i].ability
                      = fPokemon.abilities[i].ability
          /\ Len(fResult.value.moves) = Len(fMoves)
          /\ \A i \in 1..Len(fMoves) :
                /\ fResult.value.moves[i] = fMoves[i].value
                /\ fResult.value.moves[i].move = fPokemon.moves[i].move
    /\ jpc = "done" =>
          /\ Len(jList) = Len(jIds)
          /\ \A i \in 1..Len(jIds) : jList[i].id = jIds[i]

\* the record fetches of a page of three completed last to first, and the
\* records stored are in the order of the identifiers
C24_Witness ==
    /\ jpc = "done" /\ Len(jIds) = 3
    /\ jSlots[3].at = 0 /\ jSlots[2].at = 1 /\ jSlots[1].at = 2
    /\ IdsOf(jList) = jIds /\ jIds[1] # jIds[2]

-----------------------------------------------------------------------------
(* The Pagination control (part_003 32-83) rendered for a current page and   *)
(* a page count, each drawn from a bounded set.                              *)

MaxTotalPages == 10   \* largest page count the control is rendered for

PagerInit ==
    /\ HomeInit /\ MatchIdle /\ FetchIdle /\ RefIdle /\ JoinIdle
    /\ gPage \in 0..(MaxTotalPages + 1)
    /\ gTotal \in 0..MaxTotalPages
    /\ gNumbers = <<>>

\* part_003 100: getPageNumbers() is evaluated for the props
RenderPagination ==
    /\ gNumbers = <<>>
    /\ gNumbers' = GetPageNumbers(gPage, gTotal)
    /\ UNCHANGED <<gPage, gTotal, homeVars, matchVars, fetchVars, refVars,
                   joinVars>>

PagerNext == RenderPagination

PagerSpec == PagerInit /\ [][PagerNext]_vars

\* the page numbers of the rendered array, in its order, without the '...'
NumbersShown ==
    LET numbers == SelectSeq(gNumbers, LAMBDA e : e.kind = "number")
    IN  AsSeq([i \in 1..Len(numbers) |-> numbers[i].page])

\* C25: the array starts with page 1 and, when totalPages > 1, ends with
\* totalPages; its page numbers are strictly increasing; for a current page
\* in 1..totalPages it holds the current page and those of its two
\* neighbours that exist; and for totalPages <= 7 it holds every page
C25_PageNumbers ==
    gNumbers # <<>> =>
        /\ gNumbers[1] = PageNumber(1)
        /\ gTotal > 1 => gNumbers[Len(gNumbers)] = PageNumber(gTotal)
        /\ \A i, j \in 1..Len(NumbersShown) :
              i < j => NumbersShown[i] < NumbersShown[j]
        /\ (1 <= gPage /\ gPage <= gTotal) =>
              \A p \in {gPage - 1, gPage, gPage + 1} \cap (1..gTotal) :
                  p \in Elements(NumbersShown)
        /\ gTotal <= 7 => (1..gTotal) \subseteq Elements(NumbersShown)

\* page 5 of 10: both ellipses are shown around 4, 5, 6
C25_Witness ==
    /\ gPage = 5 /\ gTotal = 10
    /\ gNumbers = <<PageNumber(1), Ellipsis, PageNumber(4), PageNumber(5),
                    PageNumber(6), Ellipsis, PageNumber(10)>>

-----------------------------------------------------------------------------
(* The page used without overlap: the query, the page and the index change   *)
(* only while no load is in flight.                                          *)

NoLoadInFlight == loads = EmptyBag

SerialNext ==
    \/ Mount
    \/ NoLoadInFlight /\ \E value \in Queries : HandleSearchChange(value)
    \/ NoLoadInFlight /\ ClickPrevious
    \/ NoLoadInFlight /\ ClickNext
    \/ NoLoadInFlight /\ ClickPageNumber
    \/ NoLoadInFlight /\ \E response \in BulkResponses :
                             NamesFetchSettles(response)
    \/ \E l \in BagToSet(loads) : ListArrives(l)
    \/ \E l \in BagToSet(loads) : ListFails(l)
    \/ \E l \in BagToSet(loads) : RecordsArrive(l)
    \/ \E l \in BagToSet(loads) : RecordsFail(l)

SerialSpec == Init /\ [][SerialNext]_vars

\* a step in which a load ends with its records stored: the records of a
\* page arrive, a listing arrives empty, or a search finds nothing for the
\* page and ends in the step that started it
LoadSucceeds ==
    \/ \E l \in BagToSet(loads) :
          /\ CopiesIn(l, loads') < CopiesIn(l, loads)
          /\ RecordsArrive(l) \/ (ListArrives(l) /\ loads' = Settle(l))
    \/ StateChanged /\ loads' = loads

\* C26: when a load succeeds in a history without overlap, then error is
\* null, loading is false, and the records shown and totalPages are those of
\* the Searching rule (matches of the query in index order, page slice,
\* ceil(matches / 12)) or of the Browsing rule (listing page at offset
\* (page - 1) * 12, ceil(count / 12)) for the current query, page and index
C26_SerialLoadShowsCurrent ==
    [][LoadSucceeds =>
         /\ error' = Null /\ ~loading' /\ loads' = EmptyBag
         /\ IF searchTerm' # <<>> /\ allPokemonNames' # <<>>
            THEN LET matches == MatchesOf(allPokemonNames', searchTerm')
                     first   == (currentPage' - 1) * 12
                 IN  /\ 12 * totalPages' >= Len(matches)
                     /\ 12 * (totalPages' - 1) < Len(matches)
                     /\ IdsOf(pokemonList')
                           = IF currentPage' >= 1
                             THEN SubSeq(matches, first + 1,
                                         Min(first + 12, Len(matches)))
                             ELSE <<>>
            ELSE /\ 12 * totalPages' >= CatalogSize
                 /\ 12 * (totalPages' - 1) < CatalogSize
                 /\ IdsOf(pokemonList') = ListedIds((currentPage' - 1) * 12)
    ]_vars

\* the query "a" was typed while nothing was in flight and searched in the
\* loaded index: its matches are shown with no error
C26_Witness ==
    /\ started.mode = "search" /\ started.by = "query"
    /\ searchTerm = Chars("a") /\ currentPage = 1
    /\ loads = EmptyBag /\ ~loading /\ error = Null
    /\ IdsOf(pokemonList) = CatalogMatches[Chars("a")] /\ totalPages = 1

-----------------------------------------------------------------------------
(* The loading flag while loads are in flight.                               *)

\* C27: in every reachable state, while at least one load is in flight the
\* loading flag is true
C27_LoadingWhileInFlight ==
    loads # EmptyBag => loading

-----------------------------------------------------------------------------
(* What a failing load leaves.                                               *)

-----------------------------------------------------------------------------
(* A query of white space only.                                              *)

WhiteSpaceOnly(term) ==
    term # <<>> /\ \A i \in 1..Len(term) : term[i] \in WhiteSpace

\* C29: with a non-empty index, a query of white space only is searched (the
\* raw query is not empty), every index entry matches it, in index order,
\* because every name starts with the empty string, and totalPages is
\* ceil(indexSize / 12)
C29_BlankQueryMatchesAll ==
    (WhiteSpaceOnly(mTerm) /\ mIndex # <<>>) =>
        /\ UseSearch(mTerm, mIndex)
        /\ mOut # NoOutput =>
              /\ mOut.matches = IdsOf(mIndex)
              /\ \A i \in 1..Len(mOut.via) : mOut.via[i] = "prefix"
              /\ 12 * mOut.totalPages >= Len(mIndex)
              /\ 12 * (mOut.totalPages - 1) < Len(mIndex)

\* a blank query on an index of 26 entries: all match, on three pages, where
\* the listing of the catalog has two
C29_Witness ==
    /\ mOut # NoOutput /\ mTerm = Chars(" ") /\ Len(mIndex) = 26
    /\ Len(mOut.matches) = 26 /\ mOut.totalPages = 3
    /\ mOut.totalPages # CeilDiv(ListResponse(ITEMS_PER_PAGE, 0).count, 12)

====
